---- MODULE Spec2Model ----
(***************************************************************************)
(* Model of gromacs/analysis/plugins/CysAccessibility.py: the worker class *)
(* _CysAccessibility (construction, make_index_cys, run_g_dist_cys,        *)
(* analyze_cys), the files it creates and the external processes it        *)
(* launches.                                                               *)
(***************************************************************************)
EXTENDS Integers, Sequences, FiniteSets, TLC

\* ------------------------------------------------------------------ bounds
\* longest cysteines argument handed to the constructor
MaxLen == 3

\* most API calls (run, analyze, make_index_cys) made on one worker
MaxOps == 2

\* ------------------------------------------------------- text and numbers
DigitChars == <<"0", "1", "2", "3", "4", "5", "6", "7", "8", "9">>

IsDigit(c) == \E d \in 1..10 : DigitChars[d] = c

DigitValue(c) == (CHOOSE d \in 1..10 : DigitChars[d] = c) - 1

\* '%d' % n for n >= 0: the decimal digits of n, most significant first
RECURSIVE Digits(_)
Digits(n) == IF n < 10 THEN <<DigitChars[n + 1]>>
             ELSE Append(Digits(n \div 10), DigitChars[(n % 10) + 1])

\* int(s) for a string s of decimal digits
RECURSIVE ParseInt(_)
ParseInt(s) == IF Len(s) = 0 THEN 0
               ELSE 10 * ParseInt(SubSeq(s, 1, Len(s) - 1)) + DigitValue(s[Len(s)])

\* Members of the cysteines argument: <<kind, payload>>.  An int carries its
\* value, a float its value in tenths, a str its characters.
TokInt(n) == <<"int", <<n>>>>
TokFloat(tenths) == <<"float", <<tenths>>>>
TokStr(chars) == <<"str", chars>>

\* does int(tok) return (TRUE) or raise ValueError (FALSE)
IntCoercible(tok) ==
    CASE tok[1] = "int" -> TRUE
      [] tok[1] = "float" -> TRUE
      [] tok[1] = "str" -> Len(tok[2]) > 0 /\ \A k \in 1..Len(tok[2]) : IsDigit(tok[2][k])

\* int(tok): a float is truncated, a string is parsed
IntOf(tok) ==
    CASE tok[1] = "int" -> tok[2][1]
      [] tok[1] = "float" -> tok[2][1] \div 10
      [] tok[1] = "str" -> ParseInt(tok[2])

\* map(int, cysteines)
MapInt(toks) == [k \in 1..Len(toks) |-> IntOf(toks[k])]

\* list.sort(): ascending, by insertion
RECURSIVE Insert(_, _)
Insert(s, x) == IF Len(s) = 0 THEN <<x>>
                ELSE IF x < s[1] THEN <<x>> \o s
                ELSE <<s[1]>> \o Insert(Tail(s), x)

RECURSIVE ListSort(_)
ListSort(s) == IF Len(s) = 0 THEN <<>>
              ELSE Insert(ListSort(SubSeq(s, 1, Len(s) - 1)), s[Len(s)])

Range(s) == {s[k] : k \in 1..Len(s)}

\* ------------------------------------------------------------ file names
\* 'Cys%(resid)d'
GroupName(resid) == <<"C", "y", "s">> \o Digits(resid)

\* self.plugindir(name): a file in the plugin's directory self.location
Plugindir(name) == <<"accessibility", "/">> \o name

NdxPath == Plugindir(<<"cys.ndx">>)

\* self.plugindir('Cys%d_OW_dist.txt.bz2' % resid)
DistPath(resid) == Plugindir(GroupName(resid) \o <<"_OW_dist.txt.bz2">>)

FigPath == Plugindir(<<"mindist_S_OW">>)

\* ----------------------------------------------------------------- inputs
\* cutoffs are in tenths of a nm
DefaultCutoff == 10

InputTokens == {TokInt(5), TokStr(<<"1", "0">>), TokInt(42), TokFloat(57), TokStr(<<"x">>)}

\* the residue identifiers the inputs can denote
Resids == {5, 10, 42}

\* cys_cutoff left out, or given as 1.0
CutoffKwargs == {<<"absent", 0>>, <<"num", 10>>}

\* the cutoff argument of run(): None or a number
CutoffArgs == {<<"None", 0>>, <<"num", 12>>}

SeqsUpTo(S, n) == UNION {[1..k -> S] : k \in 0..n}

CysteinesKwargs == {<<"absent", <<>>>>} \cup {<<"list", s>> : s \in SeqsUpTo(InputTokens, MaxLen)}

OutPaths == {DistPath(r) : r \in Resids}

Paths == {NdxPath} \cup OutPaths

\* The files a worker built from these arguments can name.  The plugin
\* directory may hold any of them beforehand; other files play no part.
Nameable(kw) ==
    {NdxPath} \cup {DistPath(IntOf(kw.cysteines[2][k])) :
                       k \in {j \in 1..Len(kw.cysteines[2]) : IntCoercible(kw.cysteines[2][j])}}

VARIABLES
    pc,          \* "new", "dead" (constructor raised), "idle", "loop", "wait"
    kwargs,      \* the constructor's keyword arguments
    parameters,  \* self.parameters
    results,     \* self.results
    fs,          \* the plugin directory: path -> content ("absent" when no file)
    cutoff,      \* run_g_dist_cys: local cutoff
    idx,         \* run_g_dist_cys: position of the loop in parameters.cysteines
    gproc,       \* g_dist process of each residue's job: "none", "nolaunch",
                 \*   "running", "unreaped", "exit0", "exit1"
    cproc,       \* bzip2 process of each residue's job: "none", "nolaunch",
                 \*   "running", "exit0", "exit1"
    ndxInput,    \* the commands of the last make_ndx invocation
    runStatus,   \* history: "none", "running", "returned", "raised": the run in
                 \*   progress, or the last API call when that was a run
    runLog,      \* history: what that run did, in order
    start,       \* history: the files present when that run began
    wrote,       \* history: the files that run opened for writing or had a tool write
    follows,     \* history: that run began right after a run that had returned
    opens,       \* history: how often each residue's output file was opened for writing
    inserted,    \* history: keys of the last analyze_cys, in insertion order
    nops,        \* history: the number of API calls made so far
    reordered,   \* history: the constructor was the last call made, and its sort
                 \*   changed the order of the list
    params0      \* history: self.parameters when the constructor returned

vars == <<pc, kwargs, parameters, results, fs, cutoff, idx, gproc, cproc, ndxInput,
          runStatus, runLog, start, wrote, follows, opens, inserted, nops,
          reordered, params0>>

\* the variables that describe one run
runHistory == <<runStatus, runLog, start, wrote, follows>>

NoParameters == [cysteines |-> <<>>, cutoff |-> 0, ndx |-> <<>>,
                 filenames |-> [r \in {} |-> <<>>], figname |-> <<>>]

NoResults == [g \in {} |-> <<>>]

Init ==
    /\ pc = "new"
    /\ \E c \in CysteinesKwargs, k \in CutoffKwargs :
          kwargs = [cysteines |-> c, cys_cutoff |-> k]
    /\ parameters = NoParameters
    /\ results = NoResults
    /\ \E present \in SUBSET Nameable(kwargs) :
          fs = [p \in Paths |-> IF p \in present THEN "old" ELSE "absent"]
    /\ cutoff = 0
    /\ idx = 0
    /\ gproc = [r \in Resids |-> "none"]
    /\ cproc = [r \in Resids |-> "none"]
    /\ ndxInput = <<>>
    /\ runStatus = "none"
    /\ runLog = <<>>
    /\ start = {}
    /\ wrote = {}
    /\ follows = FALSE
    /\ opens = [r \in Resids |-> 0]
    /\ inserted = <<>>
    /\ nops = 0
    /\ reordered = FALSE
    /\ params0 = NoParameters

\* ------------------------------------------------------------ constructor
\* the list stored without the sort of line 87
Unsorted(toks) == MapInt(toks)

\* lines 84-87: the stored residue list
StoredCysteines(toks) == ListSort(MapInt(toks))

Popped == [cysteines |-> <<"absent", <<>>>>, cys_cutoff |-> <<"absent", 0>>]

\* __init__ raises ValueError: cysteines missing (None) or not coercible
ConstructRaises ==
    \/ kwargs.cysteines[1] = "absent"
    \/ \E k \in 1..Len(kwargs.cysteines[2]) : ~IntCoercible(kwargs.cysteines[2][k])

Construct ==
    /\ pc = "new"
    /\ kwargs' = Popped
    /\ IF ConstructRaises
       THEN /\ pc' = "dead"
            /\ UNCHANGED <<parameters, params0, reordered>>
       ELSE LET cys == StoredCysteines(kwargs.cysteines[2])
                p == [cysteines |-> cys,
                      cutoff |-> IF kwargs.cys_cutoff[1] = "absent" THEN DefaultCutoff
                                 ELSE kwargs.cys_cutoff[2],
                      ndx |-> NdxPath,
                      filenames |-> [r \in Range(cys) |-> DistPath(r)],
                      figname |-> FigPath]
            IN /\ parameters' = p
               /\ params0' = p
               /\ reordered' = (cys # MapInt(kwargs.cysteines[2]))
               /\ pc' = "idle"
    /\ UNCHANGED <<results, fs, cutoff, idx, gproc, cproc, ndxInput, runHistory,
                   opens, inserted, nops>>

\* an API call other than run begins: the history of the call before it is
\* of no use any more
ForgetRun ==
    /\ reordered' = FALSE
    /\ runStatus' = "none"
    /\ runLog' = <<>>
    /\ start' = {}
    /\ wrote' = {}
    /\ follows' = FALSE

\* --------------------------------------------------------- make_index_cys
\* the groups counted from 1 instead of 0
NameCommandFrom1(groupid, resid) ==
    <<"name", " ">> \o Digits(groupid + 1) \o <<" ">> \o GroupName(resid)

\* line 117: 'name %(groupid)d Cys%(resid)d'
NameCommand(groupid, resid) ==
    <<"name", " ">> \o Digits(groupid) \o <<" ">> \o GroupName(resid)

\* line 113
Commands1 == << <<"keep 0">>, <<"del 0">>, <<"r CYSH & t S">>, <<"splitres 0">>, <<"del 0">> >>

\* line 114
Commands2 == << <<"t OW">>, <<"q">> >>

\* lines 115-118: enumerate() counts the groups from 0
IndexCommands(cysteines) ==
    Commands1 \o [k \in 1..Len(cysteines) |-> NameCommand(k - 1, cysteines[k])] \o Commands2

\* gromacs.make_ndx(f=tpr, o=ndx, input=commands): a blocking call; the tool
\* reads the commands and writes the index file, replacing any file there
MakeNdx(files, ndx) == [files EXCEPT ![ndx] = "index"]

\* make_index_cys() called on its own
MakeIndexCys ==
    /\ pc = "idle"
    /\ nops < MaxOps
    /\ nops' = nops + 1
    /\ ndxInput' = IndexCommands(parameters.cysteines)
    /\ fs' = MakeNdx(fs, parameters.ndx)
    /\ ForgetRun
    /\ UNCHANGED <<pc, kwargs, parameters, results, cutoff, idx, gproc, cproc,
                   opens, inserted, params0>>

\* --------------------------------------------------------- run_g_dist_cys
\* an existence check that never finds the file
ExistsIgnored(files, path) == FALSE

\* os.path.isfile / check_file_exists(filename, resolve='warning')
FileExists(files, path) == files[path] # "absent"

\* the argument recorded even when it is None
RecordsArgument(params, arg) == arg[2]

\* lines 125-128: the cutoff recorded in self.parameters by run(cutoff=arg)
RecordedCutoff(params, arg) == IF arg[1] = "None" THEN params.cutoff ELSE arg[2]

\* lines 125-133: the cutoff, then the index file when it is missing
RunStart(arg) ==
    /\ pc = "idle"
    /\ nops < MaxOps
    /\ nops' = nops + 1
    /\ cutoff' = (IF arg[1] = "None" THEN parameters.cutoff ELSE arg[2])
    /\ parameters' = [parameters EXCEPT !.cutoff = RecordedCutoff(parameters, arg)]
    /\ start' = {p \in Paths : FileExists(fs, p)}
    /\ follows' = (runStatus = "returned")
    /\ IF ~FileExists(fs, parameters.ndx)
       THEN /\ ndxInput' = IndexCommands(parameters.cysteines)
            /\ fs' = MakeNdx(fs, parameters.ndx)
            /\ runLog' = << <<"make_ndx", 0>> >>
            /\ wrote' = {parameters.ndx}
       ELSE /\ runLog' = <<>>
            /\ wrote' = {}
            /\ UNCHANGED <<ndxInput, fs>>
    /\ idx' = 1
    /\ runStatus' = "running"
    /\ pc' = "loop"
    /\ reordered' = FALSE
    /\ UNCHANGED <<kwargs, results, gproc, cproc, opens, inserted, params0>>

\* the residue of the current loop iteration
Cur == parameters.cysteines[idx]

\* lines 138-140: the output file exists, continue
LoopSkip ==
    /\ pc = "loop"
    /\ idx <= Len(parameters.cysteines)
    /\ FileExists(fs, parameters.filenames[Cur])
    /\ runLog' = Append(runLog, <<"skip", Cur>>)
    /\ idx' = idx + 1
    /\ UNCHANGED <<pc, kwargs, parameters, results, fs, cutoff, gproc, cproc, ndxInput,
                   runStatus, start, wrote, follows, opens, inserted, nops,
                   reordered, params0>>

\* the file not created by the runner (left for bzip2 to create)
NotCreated(files, path) == files

\* line 143: open(filename, 'w') creates the file, empty
OpenForWriting(files, path) == [files EXCEPT ![path] = "empty"]

\* what the two Popen calls of lines 145-148 can do: both processes start, or
\* g_dist cannot be started, or g_dist starts and bzip2 cannot be started (then
\* nothing ever waits for that g_dist: it is "unreaped", running or a zombie)
LaunchOutcomes == {"launched", "g_dist_oserror", "bzip2_oserror"}

\* an exception leaves run_g_dist_cys: the loop is over (lines 144-151 have
\* no except clause; finally closes the file)
RunRaises ==
    /\ pc' = "idle"
    /\ runStatus' = "raised"
    /\ idx' = 0
    /\ cutoff' = 0

\* lines 141-148
Launch(outcome) ==
    /\ pc = "loop"
    /\ idx <= Len(parameters.cysteines)
    /\ ~FileExists(fs, parameters.filenames[Cur])
    /\ fs' = OpenForWriting(fs, parameters.filenames[Cur])
    /\ wrote' = wrote \cup {parameters.filenames[Cur]}
    /\ opens' = [opens EXCEPT ![Cur] = @ + 1]
    /\ CASE outcome = "launched" ->
              /\ gproc' = [gproc EXCEPT ![Cur] = "running"]
              /\ cproc' = [cproc EXCEPT ![Cur] = "running"]
              /\ runLog' = runLog \o << <<"g_dist", Cur>>, <<"bzip2", Cur>> >>
              /\ pc' = "wait"
              /\ UNCHANGED <<idx, cutoff, runStatus>>
         [] outcome = "g_dist_oserror" ->
              /\ gproc' = [gproc EXCEPT ![Cur] = "nolaunch"]
              /\ runLog' = Append(runLog, <<"g_dist", Cur>>)
              /\ UNCHANGED cproc
              /\ RunRaises
         [] outcome = "bzip2_oserror" ->
              /\ gproc' = [gproc EXCEPT ![Cur] = "unreaped"]
              /\ cproc' = [cproc EXCEPT ![Cur] = "nolaunch"]
              /\ runLog' = runLog \o << <<"g_dist", Cur>>, <<"bzip2", Cur>> >>
              /\ RunRaises
    /\ UNCHANGED <<kwargs, parameters, results, ndxInput, start, follows, inserted,
                   nops, reordered, params0>>

\* lines 149-151: p.communicate() returns when g_dist has exited (status rc);
\* then the file is closed and the loop goes on.  Nothing waits for bzip2.
Communicate(rc) ==
    /\ pc = "wait"
    /\ gproc' = [gproc EXCEPT ![Cur] = IF rc = 0 THEN "exit0" ELSE "exit1"]
    /\ idx' = idx + 1
    /\ pc' = "loop"
    /\ UNCHANGED <<kwargs, parameters, results, fs, cutoff, cproc, ndxInput, runHistory,
                   opens, inserted, nops, reordered, params0>>

\* line 135: the list is exhausted, run_g_dist_cys returns (None)
LoopEnd ==
    /\ pc = "loop"
    /\ idx > Len(parameters.cysteines)
    /\ pc' = "idle"
    /\ runStatus' = "returned"
    /\ idx' = 0
    /\ cutoff' = 0
    /\ UNCHANGED <<kwargs, parameters, results, fs, gproc, cproc, ndxInput, runLog,
                   start, wrote, follows, opens, inserted, nops, reordered,
                   params0>>

\* ------------------------------------------------------ the child processes
\* what bzip2 leaves in the file when it exits with status rc
Compressed(gstate, rc) == IF rc = 0 /\ gstate = "exit0" THEN "complete" ELSE "partial"

\* bzip2 -c (line 148) exits: with 0 once g_dist has closed the pipe, with an
\* error at any time
CompressorExit(r, rc) ==
    /\ cproc[r] = "running"
    /\ rc = 0 => gproc[r] \in {"exit0", "exit1"}
    /\ cproc' = [cproc EXCEPT ![r] = IF rc = 0 THEN "exit0" ELSE "exit1"]
    /\ fs' = [fs EXCEPT ![DistPath(r)] = Compressed(gproc[r], rc)]
    /\ UNCHANGED <<pc, kwargs, parameters, results, cutoff, idx, gproc, ndxInput,
                   runHistory, opens, inserted, nops, reordered, params0>>

\* ------------------------------------------------------------ analyze_cys
\* mindist.Mindist(filename, cutoff): the analysis object (lines 162-165)
Mindist(filename, c) == [filename |-> filename, cutoff |-> c]

\* results[key] = value
DictSet(d, key, value) ==
    [x \in (DOMAIN d) \cup {key} |-> IF x = key THEN value ELSE d[x]]

\* the dictionary created anew inside the loop: only the last entry survives
AnalyzeLoopLastOnly(params, n) ==
    IF n = 0 THEN [g \in {} |-> <<>>]
    ELSE DictSet([g \in {} |-> <<>>],
                 GroupName(params.cysteines[n]),
                 Mindist(params.filenames[params.cysteines[n]], params.cutoff))

\* lines 155-158: the loop over the first n residues
RECURSIVE AnalyzeLoop(_, _)
AnalyzeLoop(params, n) ==
    IF n = 0 THEN NoResults
    ELSE DictSet(AnalyzeLoop(params, n - 1),
                 GroupName(params.cysteines[n]),
                 Mindist(params.filenames[params.cysteines[n]], params.cutoff))

\* Mindist cannot read a file that is not there; it may or may not read one
\* that is empty or cut short
MustRaise == \E r \in Range(parameters.cysteines) : ~FileExists(fs, parameters.filenames[r])

MayRaise ==
    \E r \in Range(parameters.cysteines) : fs[parameters.filenames[r]] \notin {"old", "complete"}

Analyze(ok) ==
    /\ pc = "idle"
    /\ nops < MaxOps
    /\ nops' = nops + 1
    /\ IF ok
       THEN /\ ~MustRaise
            /\ results' = AnalyzeLoop(parameters, Len(parameters.cysteines))
            /\ inserted' = [k \in 1..Len(parameters.cysteines) |->
                               GroupName(parameters.cysteines[k])]
       ELSE /\ MayRaise
            /\ UNCHANGED <<results, inserted>>
    /\ ForgetRun
    /\ UNCHANGED <<pc, kwargs, parameters, fs, cutoff, idx, gproc, cproc, ndxInput,
                   opens, params0>>

Next ==
    \/ Construct
    \/ MakeIndexCys
    \/ \E arg \in CutoffArgs : RunStart(arg)
    \/ LoopSkip
    \/ \E outcome \in LaunchOutcomes : Launch(outcome)
    \/ \E rc \in {0, 1} : Communicate(rc)
    \/ LoopEnd
    \/ \E r \in Resids, rc \in {0, 1} : CompressorExit(r, rc)
    \/ \E ok \in BOOLEAN : Analyze(ok)

Spec == Init /\ [][Next]_vars

\* ----------------------------------------------------------------- claims
Cysteines == parameters.cysteines

Configured == Range(parameters.cysteines)

\* the constructor has returned
Alive == pc \notin {"new", "dead"}

RunEnded == runStatus \in {"returned", "raised"}

\* the entries of the run's log that are of the given kinds, in order
LogOf(kinds) == SelectSeq(runLog, LAMBDA e : e[1] \in kinds)

Logged(kind, r) == \E k \in 1..Len(runLog) : runLog[k] = <<kind, r>>

Ascending(s) == \A i \in 1..Len(s), j \in 1..Len(s) : i < j => s[i] <= s[j]

\* a stage of the residue's job could not be started or exited non-zero
Failed(r) == gproc[r] \in {"nolaunch", "exit1"} \/ cproc[r] \in {"nolaunch", "exit1"}

\* C1: fault isolation.  Once a run has ended, for every residue r whose
\* distance-tool invocation in that run failed (not launched, or non-zero
\* exit), every other configured residue whose output file was absent when
\* the run began has had its distance tool invoked in that run and has its
\* output file.
C1_FaultIsolation ==
    RunEnded =>
        \A r \in Configured :
            (Logged("g_dist", r) /\ gproc[r] \in {"nolaunch", "exit1"}) =>
                \A q \in Configured \ {r} :
                    DistPath(q) \notin start =>
                        Logged("g_dist", q) /\ FileExists(fs, DistPath(q))

\* the run in progress or just ended began with every configured residue's
\* output file in place
AllOutputsAtStart == runStatus # "none" /\ \A r \in Configured : DistPath(r) \in start

SkipsAll == [k \in 1..Len(Cysteines) |-> <<"skip", Cysteines[k]>>]

C3_FreshRunOrder ==
    (RunEnded /\ start = {}) =>
        LET t == LogOf({"make_ndx", "g_dist"})
        IN /\ Len(t) = 1 + Cardinality(Configured)
           /\ t[1] = <<"make_ndx", 0>>
           /\ \A k \in 2..Len(t) : t[k][1] = "g_dist" /\ t[k][2] \in Configured
           /\ \A k \in 2..(Len(t) - 1) : t[k][2] < t[k + 1][2]

\* C4: the stored residue-identifier sequence is sorted ascending from the
\* moment the constructor returns, whatever the order of the input, and
\* after any sequence of index builds, runs and analyses.
C4_SortedAscending == Alive => Ascending(Cysteines)

\* the constructor has just stored 5, 10, 42 for a list given in another order
C4_Witness ==
    /\ pc = "idle"
    /\ reordered
    /\ Cysteines = <<5, 10, 42>>

\* the residue identifier a label 'Cys<resid>' names
ResidOfLabel(g) == ParseInt(SubSeq(g, 4, Len(g)))

\* C5: after a successful analyze_cys the result mapping has exactly one
\* entry per configured residue, keyed Cys<resid> and built from that
\* residue's own output file, and the keys were inserted in ascending order
\* of the residue identifiers.
C5_ResultMapping ==
    inserted # <<>> =>
        /\ Cardinality(DOMAIN results) = Cardinality(Configured)
        /\ \A g \in DOMAIN results :
              LET r == ResidOfLabel(g)
              IN /\ SubSeq(g, 1, 3) = <<"C", "y", "s">>
                 /\ r \in Configured
                 /\ results[g].filename = parameters.filenames[r]
                 /\ results[g].filename = DistPath(r)
        /\ \A r \in Configured : \E g \in DOMAIN results : ResidOfLabel(g) = r
        /\ Len(inserted) = Len(Cysteines)
        /\ \A k \in 1..Len(inserted) :
              inserted[k] \in DOMAIN results /\ ResidOfLabel(inserted[k]) = Cysteines[k]
        /\ Ascending([k \in 1..Len(inserted) |-> ResidOfLabel(inserted[k])])

\* an analysis of three residues succeeded
C5_Witness ==
    /\ Len(inserted) = 3
    /\ Cardinality(DOMAIN results) = 3
    /\ Cysteines = <<5, 10, 42>>

\* C6 as stated: no operation changes any field of the configuration.
C6_Immutable == Alive => parameters = params0

\* C6 amended: no operation changes the residue-identifier sequence, the
\* index path, the residue-to-output-path mapping or the plot path; the
\* cutoff is changed only by a run with an explicit cutoff argument, which
\* stores that argument.
C6_OnlyRunCutoffChanges ==
    [][Alive =>
          /\ [parameters EXCEPT !.cutoff = 0]' = [parameters EXCEPT !.cutoff = 0]
          /\ parameters'.cutoff # parameters.cutoff =>
                \E arg \in CutoffArgs :
                    arg[1] = "num" /\ RunStart(arg) /\ parameters'.cutoff = arg[2]]_vars

\* a run with an explicit cutoff has returned and only the cutoff differs
C6_Witness ==
    /\ runStatus = "returned"
    /\ parameters.cutoff # params0.cutoff
    /\ [parameters EXCEPT !.cutoff = params0.cutoff] = params0
    /\ Len(Cysteines) > 0

\* C7: completion barrier.  A distance tool or a compressor is running only
\* while the runner is waiting in that residue's own loop iteration, with the
\* residue's output file still open.
C7_CompletionBarrier ==
    \A r \in Resids :
        (gproc[r] \in {"running", "unreaped"} \/ cproc[r] = "running") =>
            (pc = "wait" /\ Cur = r)

\* C8: failure propagation.  A run that has returned (no error reported) has
\* no residue whose distance tool or compressor, started in that run, could
\* not be launched or exited non-zero.
C8_FailureReported ==
    runStatus = "returned" =>
        \A r \in Configured : Logged("g_dist", r) => ~Failed(r)

\* C9: the commands sent to the index tool are the fixed preamble, then one
\* rename per configured residue in ascending order, the k-th (from 0)
\* naming group k Cys<resid> for the k-th smallest identifier, then the
\* water-oxygen selection and quit; residues 5, 10, 42 give Cys5, Cys10,
\* Cys42 for groups 0, 1, 2.
C9_IndexCommands ==
    ndxInput # <<>> =>
        LET n == Len(Cysteines)
        IN /\ Len(ndxInput) = n + 7
           /\ SubSeq(ndxInput, 1, 5) =
                 << <<"keep 0">>, <<"del 0">>, <<"r CYSH & t S">>, <<"splitres 0">>, <<"del 0">> >>
           /\ \A k \in 0..(n - 1) :
                 ndxInput[6 + k] =
                    <<"name", " ">> \o Digits(k) \o <<" ", "C", "y", "s">> \o Digits(Cysteines[k + 1])
           /\ Ascending(Cysteines)
           /\ ndxInput[n + 6] = <<"t OW">>
           /\ ndxInput[n + 7] = <<"q">>
           /\ Cysteines = <<5, 10, 42>> =>
                 SubSeq(ndxInput, 6, 8) =
                    << <<"name", " ", "0", " ", "C", "y", "s", "5">>,
                       <<"name", " ", "1", " ", "C", "y", "s", "1", "0">>,
                       <<"name", " ", "2", " ", "C", "y", "s", "4", "2">> >>

\* the index tool was invoked for the residues 5, 10, 42
C9_Witness ==
    /\ Cysteines = <<5, 10, 42>>
    /\ Len(ndxInput) = 10
    /\ FileExists(fs, NdxPath)

\* C10: the output file is created before the distance tool is launched, so
\* a residue whose job failed keeps its output file; no run that finds the
\* file invokes the distance tool for it, hence its file is opened once and
\* never again.
C10_FailedJobPoisonsSkip ==
    \A r \in Resids :
        /\ (gproc[r] # "none" \/ cproc[r] # "none") => FileExists(fs, DistPath(r))
        /\ Failed(r) => (FileExists(fs, DistPath(r)) /\ opens[r] = 1)
        /\ (Logged("g_dist", r) \/ Logged("bzip2", r)) => DistPath(r) \notin start

\* a later run has skipped a residue whose job had failed, and has returned
C10_Witness ==
    \E r \in Configured :
        /\ Failed(r)
        /\ runStatus = "returned"
        /\ Logged("skip", r)
        /\ fs[DistPath(r)] \in {"empty", "partial"}
====
